---------------------------- MODULE Spec2Model ----------------------------
(***************************************************************************)
(* A model of the resume generator: build_docx.py (the versioned document  *)
(* builder) and build.py (the Markdown builder).                           *)
(*                                                                         *)
(* Strings the code inspects character by character (role tokens, which    *)
(* are lower-cased; bullet texts, which are split on "**") are sequences   *)
(* of one-character strings.  A tag list is modelled by the set of its     *)
(* elements: the code only ever tests membership in it.                    *)
(***************************************************************************)
EXTENDS Integers, Sequences, FiniteSets, TLC

VARIABLES
    items, frole, fout, fpc,          \* one call of a tag filter: its arguments, its result
    text, runs, bpc,                  \* one call of apply_bold_to_text: the text, the runs added
    data,                             \* the parsed data file
    datafile,                         \* data/resume.yaml: "ok", "missing" or "malformed"
    argv, script, pc,                 \* one invocation of a build script: its command line,
    role, loaded, view, doc,          \*   its locals (view: the filtered lists it assembled),
    stdout, raised, exit,             \*   what it printed, the exception that ended it, its status
    nruns,                            \* invocations started so far
    files, outdir,                    \* outputs/: path -> content, and whether it exists
    log,                              \* the writes so far: who wrote which path
    procs                             \* concurrent invocations, one record each

vars == <<items, frole, fout, fpc, text, runs, bpc, data, datafile, argv, script, pc, role,
          loaded, view, doc, stdout, raised, exit, nruns, files, outdir, log, procs>>

filterVars == <<items, frole, fout, fpc>>
boldVars == <<text, runs, bpc>>
runVars == <<argv, script, pc, role, loaded, view, doc, stdout, raised, exit, nruns>>
fsVars == <<files, outdir, log>>

-----------------------------------------------------------------------------
(* Bounds of the model.                                                    *)

MaxItems == 3       \* longest item sequence handed to a filter on its own
MaxLen == 7         \* longest bullet text handed to apply_bold_to_text on its own
MaxList == 2        \* most entities in the one fully varied section of a data file
MaxBullets == 2     \* most bullets of an entry in the fully varied section
MaxVersion == 3     \* highest version number of a file present before the first run
MaxRuns == 3        \* most invocations in a row
NumProcs == 2       \* concurrent invocations

-----------------------------------------------------------------------------
(* Strings.                                                                *)

UpperCase == <<"A", "B", "C", "D", "E", "F", "G", "H", "I", "J", "K", "L", "M",
               "N", "O", "P", "Q", "R", "S", "T", "U", "V", "W", "X", "Y", "Z">>
LowerCase == <<"a", "b", "c", "d", "e", "f", "g", "h", "i", "j", "k", "l", "m",
               "n", "o", "p", "q", "r", "s", "t", "u", "v", "w", "x", "y", "z">>

\* str.lower() on one character (over the letters the model's tokens use).
LowerChar(c) ==
    IF \E i \in DOMAIN UpperCase : UpperCase[i] = c
    THEN LowerCase[CHOOSE i \in DOMAIN UpperCase : UpperCase[i] = c]
    ELSE c

\* str.lower()
Lower(s) == [i \in DOMAIN s |-> LowerChar(s[i])]

Digits == <<"0", "1", "2", "3", "4", "5", "6", "7", "8", "9">>

\* str(n) for a non-negative integer, as the f-string formats a version.
RECURSIVE ToStr(_)
ToStr(n) ==
    IF n < 10 THEN <<Digits[n + 1]>>
    ELSE ToStr(n \div 10) \o <<Digits[(n % 10) + 1]>>

ALL == <<"a", "l", "l">>          \* the sentinel "all"
BE == <<"b", "e">>                \* a role used as a tag in the data
FE == <<"f", "e">>                \* another role used as a tag
QA == <<"q", "a">>                \* a role no item is tagged with
FULLSTACK == <<"f", "u", "l", "l", "s", "t", "a", "c", "k">>

\* All sequences over S of length at most n.
SeqsUpTo(S, n) == UNION {[1..k -> S] : k \in 0..n}

-----------------------------------------------------------------------------
(* Tag filters.                                                            *)

\* item.get("tags", [])
GetTags(item) == IF "tags" \in DOMAIN item THEN item.tags ELSE {}

\* A plausible slip: an item without the sentinel tag is kept only for its role.
KeepItemNoSentinel(item, r) == r \in GetTags(item)

\* The condition of the loop of filter_by_tags.
KeepItem(item, r) == ALL \in GetTags(item) \/ r \in GetTags(item)

\* A plausible slip: the loop prepends, so the result is reversed.
RECURSIVE FilterLoopReversed(_, _, _)
FilterLoopReversed(its, r, filtered) ==
    IF its = <<>> THEN filtered
    ELSE FilterLoopReversed(Tail(its), r,
                    IF KeepItem(Head(its), r) THEN <<Head(its)>> \o filtered
                    ELSE filtered)

\* The loop of filter_by_tags: append each kept item, in order.
RECURSIVE FilterLoop(_, _, _)
FilterLoop(its, r, filtered) ==
    IF its = <<>> THEN filtered
    ELSE FilterLoop(Tail(its), r,
                    IF KeepItem(Head(its), r) THEN Append(filtered, Head(its))
                    ELSE filtered)

\* build_docx.py: filter_by_tags(items, role)
filter_by_tags(its, r) ==
    IF r = ALL THEN its ELSE FilterLoop(its, r, <<>>)

\* The outcome of an evaluation: a value, or an uncaught exception.
Ok(v) == [raised |-> "", value |-> v]
Raise(e) == [raised |-> e]

\* build.py: filter_items(items), with ROLE as a parameter.  item["tags"] raises
\* KeyError for an item without the key; the result is the list of the texts.
RECURSIVE FilterItemsLoop(_, _, _)
FilterItemsLoop(its, ROLE, acc) ==
    IF its = <<>> THEN Ok(acc)
    ELSE IF "tags" \notin DOMAIN Head(its) THEN Raise("KeyError")
    ELSE FilterItemsLoop(Tail(its), ROLE,
                         IF ROLE \in Head(its).tags THEN Append(acc, Head(its).text)
                         ELSE acc)

filter_items(its, ROLE) == FilterItemsLoop(its, ROLE, <<>>)

-----------------------------------------------------------------------------
(* Idle values of the variables a specification does not use.              *)

FilterIdle == items = <<>> /\ frole = ALL /\ fout = Ok(<<>>) /\ fpc = "off"
BoldIdle == text = <<>> /\ runs = <<>> /\ bpc = "off"
NoView == [summary_items |-> <<>>, experience_items |-> <<>>, project_items |-> <<>>,
           education_items |-> <<>>, skill_items |-> <<>>]
RunIdle ==
    /\ argv = <<>> /\ script = "" /\ pc = "off" /\ role = <<>> /\ loaded = FALSE
    /\ view = NoView /\ doc = <<>> /\ stdout = <<>> /\ raised = "" /\ exit = 0
    /\ nruns = 0
NoData == [summary |-> <<>>]
DataIdle == data = NoData /\ datafile = "ok"
FilesIdle == files = <<>> /\ outdir = FALSE /\ log = <<>>
ProcsIdle == procs = <<>>

-----------------------------------------------------------------------------
(* Tagged items of the data file.                                          *)

\* The tags of an item as the YAML gives them: no key, or a list.
FilterTagChoices ==
    { [has |-> FALSE] } \cup
    { [has |-> TRUE, tags |-> t] : t \in {{}, {ALL}, {BE}, {FE}, {ALL, BE}} }

MkItem(t, c) == IF c.has THEN [text |-> t, tags |-> c.tags] ELSE [text |-> t]

\* The text of the i-th item of a section.
ItemText(prefix, i) == <<prefix>> \o ToStr(i)

\* The item sequence with the given tag choices, texts by position.
MkItems(prefix, cs) == [i \in DOMAIN cs |-> MkItem(ItemText(prefix, i), cs[i])]

FilterRoles == {ALL, BE, FE, QA}

-----------------------------------------------------------------------------
(* The emphasis parser.                                                    *)

StarsAt(t, i) == i >= 1 /\ i + 1 <= Len(t) /\ t[i] = "*" /\ t[i + 1] = "*"

\* The lazy group (.*?) followed by \*\*, tried from position j: the position of
\* the closing "**", or 0 when there is none.  "." matches any character but a
\* line break (re.split is called without re.DOTALL).
RECURSIVE LazyClose(_, _)
LazyClose(t, j) ==
    IF StarsAt(t, j) THEN j
    ELSE IF j > Len(t) THEN 0
    ELSE IF t[j] = "\n" THEN 0
    ELSE LazyClose(t, j + 1)

\* re.split(r'\*\*(.*?)\*\*', text) from search position i, the current plain
\* piece starting at last: the plain piece before each match, the group of the
\* match, ..., the rest of the text.
RECURSIVE ReSplit(_, _, _)
ReSplit(t, i, last) ==
    IF i > Len(t) THEN <<SubSeq(t, last, Len(t))>>
    ELSE IF StarsAt(t, i) /\ LazyClose(t, i + 2) # 0
         THEN LET j == LazyClose(t, i + 2)
              IN  <<SubSeq(t, last, i - 1), SubSeq(t, i + 2, j - 1)>>
                      \o ReSplit(t, j + 2, j + 2)
         ELSE ReSplit(t, i + 1, last)

\* The loop of apply_bold_to_text over enumerate(parts), from 1-based index k
\* (Python's i is k - 1): an empty part is skipped, a part at an odd i is bold.
RECURSIVE AddRuns(_, _)
AddRuns(parts, k) ==
    IF k > Len(parts) THEN <<>>
    ELSE IF parts[k] = <<>> THEN AddRuns(parts, k + 1)
    ELSE <<[text |-> parts[k], bold |-> ((k - 1) % 2 = 1)]>> \o AddRuns(parts, k + 1)

\* build_docx.py: apply_bold_to_text(paragraph, text): the runs added to the paragraph.
apply_bold_to_text(t) == AddRuns(ReSplit(t, 1, 1), 1)

-----------------------------------------------------------------------------
(* The document builder: build_resume of build_docx.py.  A text is the     *)
(* concatenation of its pieces; a paragraph records its style, whether it  *)
(* carries the divider border, and its runs and hyperlinks in order.       *)
(* Fonts, sizes and spacing are left out.                                  *)

Run(t, b) == [text |-> t, bold |-> b]
Para(rs) == [style |-> "Normal", border |-> FALSE, runs |-> rs]

\* add_horizontal_line(doc): the paragraph it adds.
add_horizontal_line == [style |-> "Normal", border |-> TRUE, runs |-> <<>>]

\* add_hyperlink(paragraph, text, url): the element it appends.
add_hyperlink(t, url) == [text |-> t, url |-> url]

\* The section header paragraph: one bold run with the section's name.
SectionHeader(name) == Para(<<Run(<<name>>, TRUE)>>)

\* sep.join(parts)
RECURSIVE Join(_, _)
Join(sep, parts) ==
    IF parts = <<>> THEN <<>>
    ELSE IF Len(parts) = 1 THEN parts[1]
    ELSE parts[1] \o sep \o Join(sep, Tail(parts))

\* The concatenation of a sequence of sequences.
RECURSIVE Flatten(_)
Flatten(ss) == IF ss = <<>> THEN <<>> ELSE Head(ss) \o Flatten(Tail(ss))

\* The header block: name and title, the contact line, a divider.
HeaderBlock(d) ==
    LET personal == d.personal
    IN  << Para(<<Run(personal.name \o <<" | ">> \o personal.title, TRUE)>>),
           Para(<< Run(personal.location \o <<" | ">> \o personal.email \o <<" | ">>
                          \o personal.phone \o <<" | ">>, FALSE),
                   add_hyperlink(personal.linkedin, <<"https://">> \o personal.linkedin),
                   Run(<<" | ">>, FALSE),
                   add_hyperlink(personal.github, <<"https://">> \o personal.github),
                   Run(<<" | ">>, FALSE),
                   add_hyperlink(personal.website, <<"https://">> \o personal.website) >>),
           add_horizontal_line >>

\* A plausible slip: the summary header is emitted without the emptiness test.
SummarySectionAlways(summary_items) ==
    << SectionHeader("SUMMARY") >>
    \o (IF summary_items # <<>>
        THEN << Para(<<Run(Join(<<" ">>,
                        [i \in DOMAIN summary_items |-> summary_items[i].text]), FALSE)>>),
                add_horizontal_line >>
        ELSE <<>>)

\* The summary section, emitted when summary_items is not empty.
SummarySection(summary_items) ==
    IF summary_items # <<>>
    THEN << SectionHeader("SUMMARY"),
            Para(<<Run(Join(<<" ">>, [i \in DOMAIN summary_items |-> summary_items[i].text]),
                       FALSE)>>),
            add_horizontal_line >>
    ELSE <<>>

\* A bullet paragraph: the runs apply_bold_to_text adds for the bullet's text.
BulletPara(bullet) ==
    [style |-> "List Bullet", border |-> FALSE, runs |-> apply_bold_to_text(bullet.text)]

BulletParas(bullets) == [j \in DOMAIN bullets |-> BulletPara(bullets[j])]

\* The entry kept by the experience loop for an entry with surviving bullets.
KeptExperience(exp, filtered_bullets) ==
    [company |-> exp.company, role |-> exp.role, location |-> exp.location,
     dates |-> exp.dates, bullets |-> filtered_bullets]

\* A plausible slip: the test on filtered_bullets is missing, every entry is kept.
RECURSIVE ExperienceItemsNoTest(_, _)
ExperienceItemsNoTest(exps, r) ==
    IF exps = <<>> THEN <<>>
    ELSE <<KeptExperience(Head(exps), filter_by_tags(Head(exps).bullets, r))>>
             \o ExperienceItemsNoTest(Tail(exps), r)

\* The loop that assembles experience_items.
RECURSIVE ExperienceItems(_, _)
ExperienceItems(exps, r) ==
    IF exps = <<>> THEN <<>>
    ELSE LET filtered_bullets == filter_by_tags(Head(exps).bullets, r)
         IN  (IF filtered_bullets # <<>>
              THEN <<KeptExperience(Head(exps), filtered_bullets)>>
              ELSE <<>>) \o ExperienceItems(Tail(exps), r)

\* The paragraphs of one experience entry: the title line, then its bullets.
ExperienceParas(exp) ==
    << Para(<< Run(exp.role \o <<" | ">> \o exp.company, TRUE),
               Run(<<" (">> \o exp.location \o <<")">>, FALSE),
               Run(<<"\t">>, FALSE),
               Run(exp.dates, TRUE) >>) >>
    \o BulletParas(exp.bullets)

ExperienceSection(experience_items) ==
    IF experience_items # <<>>
    THEN << SectionHeader("EXPERIENCE"), add_horizontal_line >>
         \o Flatten([i \in DOMAIN experience_items |-> ExperienceParas(experience_items[i])])
    ELSE <<>>

\* The entry kept by the projects loop.
KeptProject(proj, filtered_bullets) ==
    [name |-> proj.name, tech_stack |-> proj.tech_stack, dates |-> proj.dates,
     bullets |-> filtered_bullets]

\* The loop that assembles project_items.
RECURSIVE ProjectItems(_, _)
ProjectItems(projs, r) ==
    IF projs = <<>> THEN <<>>
    ELSE LET filtered_bullets == filter_by_tags(Head(projs).bullets, r)
         IN  (IF filtered_bullets # <<>>
              THEN <<KeptProject(Head(projs), filtered_bullets)>>
              ELSE <<>>) \o ProjectItems(Tail(projs), r)

ProjectParas(proj) ==
    << Para(<< Run(proj.name \o <<" | ">>, TRUE),
               Run(proj.tech_stack, FALSE),
               Run(<<"\t">>, FALSE),
               Run(proj.dates, TRUE) >>) >>
    \o BulletParas(proj.bullets)

ProjectsSection(project_items) ==
    IF project_items # <<>>
    THEN << SectionHeader("PROJECTS"), add_horizontal_line >>
         \o Flatten([i \in DOMAIN project_items |-> ProjectParas(project_items[i])])
    ELSE <<>>

EducationParas(edu) ==
    << Para(<< Run(edu.degree, TRUE), Run(<<"\t">>, FALSE), Run(edu.dates, TRUE) >>),
       Para(<< Run(edu.institution \o <<" (">> \o edu.location \o <<")">>, FALSE) >>) >>

EducationSection(education_items) ==
    IF education_items # <<>>
    THEN << SectionHeader("EDUCATION"), add_horizontal_line >>
         \o Flatten([i \in DOMAIN education_items |-> EducationParas(education_items[i])])
    ELSE <<>>

\* The loop over skills_data.items(): a category is kept when its tag list holds
\* "all" or the role (there is no test of the role itself here).  The dictionary
\* is the sequence of its (key, category) pairs in file order.
RECURSIVE SkillItems(_, _)
SkillItems(skills_data, r) ==
    IF skills_data = <<>> THEN <<>>
    ELSE LET skill_cat == Head(skills_data).value
             tags == GetTags(skill_cat)
         IN  (IF ALL \in tags \/ r \in tags THEN <<skill_cat>> ELSE <<>>)
                 \o SkillItems(Tail(skills_data), r)

SkillPara(skill_cat) ==
    Para(<< Run(skill_cat.label \o <<": ">>, TRUE),
            Run(Join(<<", ">>, skill_cat.items), FALSE) >>)

SkillsSection(skill_items) ==
    IF skill_items # <<>>
    THEN << SectionHeader("SKILLS"), add_horizontal_line >>
         \o [i \in DOMAIN skill_items |-> SkillPara(skill_items[i])]
    ELSE <<>>

\* The filtered lists build_resume assembles for a role.
Assemble(d, r) ==
    [summary_items |-> filter_by_tags(d.summary, r),
     experience_items |-> ExperienceItems(d.experience, r),
     project_items |-> ProjectItems(d.projects, r),
     education_items |-> filter_by_tags(d.education, r),
     skill_items |-> SkillItems(d.skills, r)]

\* The paragraphs build_resume adds to the document, in order.
DocumentOf(d, v) ==
    HeaderBlock(d)
    \o SummarySection(v.summary_items)
    \o ExperienceSection(v.experience_items)
    \o ProjectsSection(v.project_items)
    \o EducationSection(v.education_items)
    \o SkillsSection(v.skill_items)

-----------------------------------------------------------------------------
(* The Markdown builder: the module body of build.py.                      *)

\* The loop that assembles experience; filter_items may raise.
RECURSIVE MdExperience(_, _, _)
MdExperience(exps, ROLE, acc) ==
    IF exps = <<>> THEN Ok(acc)
    ELSE LET exp == Head(exps)
             bullets == filter_items(exp.bullets, ROLE)
         IN  IF bullets.raised # "" THEN bullets
             ELSE MdExperience(Tail(exps), ROLE,
                      IF bullets.value # <<>>
                      THEN Append(acc, [company |-> exp.company, role |-> exp.role,
                                        dates |-> exp.dates, bullets |-> bullets.value])
                      ELSE acc)

\* {k: v for k, v in data["skills"].items() if k == ROLE or ROLE == "fullstack"}
MdSkills(skills_data, ROLE) ==
    SelectSeq(skills_data, LAMBDA kv : kv.key = ROLE \/ ROLE = FULLSTACK)

\* tmpl.render(...).strip() + "\n": the template is not part of the sources, so
\* the rendered text is the template applied to the values handed to it.
RenderedMd(d, summary, experience, skills) ==
    << [template |-> "templates/resume.md", name |-> d.name, title |-> d.title,
        email |-> d.email, linkedin |-> d.linkedin, github |-> d.github,
        summary |-> summary, experience |-> experience, skills |-> skills] >>

-----------------------------------------------------------------------------
(* The data file.  Entities are told apart by their position: the i-th     *)
(* entity of a section has i in its texts.  Bullet texts carry a bold      *)
(* marker.                                                                 *)

WithTags(rec, c) == IF c.has THEN [tags |-> c.tags] @@ rec ELSE rec

MkBullet(i, j, c) ==
    WithTags([text |-> <<"b">> \o ToStr(i) \o <<".">> \o ToStr(j)
                          \o <<" ", "*", "*", "9", "*", "*">>], c)

MkBullets(i, cs) == [j \in DOMAIN cs |-> MkBullet(i, j, cs[j])]

MkExperience(i, cs) ==
    [company |-> <<"company">> \o ToStr(i), role |-> <<"job">> \o ToStr(i),
     location |-> <<"city">>, dates |-> <<"dates">> \o ToStr(i),
     bullets |-> MkBullets(i, cs)]

MkProject(i, cs) ==
    [name |-> <<"project">> \o ToStr(i), tech_stack |-> <<"stack">> \o ToStr(i),
     dates |-> <<"dates">> \o ToStr(i), bullets |-> MkBullets(i, cs)]

MkEducation(i, c) ==
    WithTags([degree |-> <<"degree">> \o ToStr(i), institution |-> <<"school">> \o ToStr(i),
              location |-> <<"city">>, dates |-> <<"dates">> \o ToStr(i)], c)

\* The key of the i-th skills category: the first is named after a role.
SkillKey(i) == IF i = 1 THEN BE ELSE <<"k">> \o ToStr(i)

MkSkill(i, c) ==
    [key |-> SkillKey(i),
     value |-> WithTags([label |-> <<"label">> \o ToStr(i),
                         items |-> << <<"skill">> \o ToStr(i), <<"tool">> \o ToStr(i) >>], c)]

Personal ==
    [name |-> <<"name">>, title |-> <<"title">>, location |-> <<"city">>,
     email |-> <<"email">>, phone |-> <<"phone">>, linkedin |-> <<"linkedin">>,
     github |-> <<"github">>, website |-> <<"website">>]

\* The data with the given tag choices per section (shape): the keys build_docx.py
\* reads (personal and the five sections) and those build.py reads (name, title,
\* email, linkedin, github at the top level).
MkData(shape) ==
    [personal |-> Personal,
     name |-> Personal.name, title |-> Personal.title, email |-> Personal.email,
     linkedin |-> Personal.linkedin, github |-> Personal.github,
     summary |-> MkItems("s", shape.summary),
     experience |-> [i \in DOMAIN shape.experience |-> MkExperience(i, shape.experience[i])],
     projects |-> [i \in DOMAIN shape.projects |-> MkProject(i, shape.projects[i])],
     education |-> [i \in DOMAIN shape.education |-> MkEducation(i, shape.education[i])],
     skills |-> [i \in DOMAIN shape.skills |-> MkSkill(i, shape.skills[i])]]

Tagged(t) == [has |-> TRUE, tags |-> t]
Untagged == [has |-> FALSE]

\* Tag choices of the short sections, of the fully varied section, and of the
\* bullets of a fully varied entry list.
ShortTagChoices == {Untagged, Tagged({}), Tagged({ALL}), Tagged({BE})}
FullTagChoices == {Untagged, Tagged({ALL}), Tagged({BE})}
BulletTagChoices == {Tagged({BE}), Tagged({FE})}

\* Shapes in which every section has at most one entity, an entry at most one bullet.
ShortItems == {<<>>} \cup {<<c>> : c \in ShortTagChoices}
ShortEntries == {<<>>} \cup {<<cs>> : cs \in ShortItems}
ShortShapes ==
    [summary : ShortItems, experience : ShortEntries, projects : ShortEntries,
     education : ShortItems, skills : ShortItems]

\* Shapes in which one section is fully varied within the bounds, the others
\* holding one entity tagged with a role.
FullItems == SeqsUpTo(FullTagChoices, MaxList)
FullEntries == SeqsUpTo(SeqsUpTo(BulletTagChoices, MaxBullets), MaxList)
PlainShape ==
    [summary |-> <<Tagged({BE})>>, experience |-> << <<Tagged({BE})>> >>,
     projects |-> << <<Tagged({BE})>> >>, education |-> <<Tagged({BE})>>,
     skills |-> <<Tagged({BE})>>]
FocusShapes ==
    {[PlainShape EXCEPT !.summary = x] : x \in FullItems}
    \cup {[PlainShape EXCEPT !.experience = x] : x \in FullEntries}
    \cup {[PlainShape EXCEPT !.projects = x] : x \in FullEntries}
    \cup {[PlainShape EXCEPT !.education = x] : x \in FullItems}
    \cup {[PlainShape EXCEPT !.skills = x] : x \in FullItems}

DataSet == {MkData(shape) : shape \in ShortShapes \cup FocusShapes}

-----------------------------------------------------------------------------
(* The outputs directory.                                                  *)

\* f"outputs/resume_{role}_{version}.docx"
DocxPath(r, version) == <<"outputs/resume_">> \o r \o <<"_">> \o ToStr(version) \o <<".docx">>

\* f"outputs/resume_{ROLE}.md"
MdPath(r) == <<"outputs/resume_">> \o r \o <<".md">>

\* os.path.exists(output_path)
Exists(fs, path) == path \in DOMAIN fs

\* A plausible slip: the scan is missing, every run saves version 1.
FirstFreeNoScan(fs, r, version) == version

\* The version scan: the first version, counting up from `version`, whose path
\* does not exist.
RECURSIVE FirstFree(_, _, _)
FirstFree(fs, r, version) ==
    IF ~Exists(fs, DocxPath(r, version)) THEN version
    ELSE FirstFree(fs, r, version + 1)

\* The content of a file: who wrote it, and what.
Content(by, body) == [by |-> by, body |-> body]

\* The file system after a write of body to path.
Written(fs, path, by, body) == (path :> Content(by, body)) @@ fs

LogEntry(by, r, path, version, body) ==
    [script |-> by, role |-> r, path |-> path, version |-> version, body |-> body]

-----------------------------------------------------------------------------
(* One invocation of a build script.                                       *)

Usage ==
    << <<"Usage: python build_docx.py <role>">>,
       <<"Example: python build_docx.py python">>,
       <<"Available roles: python, java, fullstack, backend, frontend, cloud, devops, mobile, all">> >>

\* The run ends with an uncaught exception: a traceback on standard error, status 1.
Dies(e) ==
    /\ raised' = e
    /\ exit' = 1
    /\ UNCHANGED <<stdout, fsVars>>

\* What open("data/resume.yaml") or yaml.safe_load raises when the file is not
\* there or is not YAML.
LoadError == IF datafile = "missing" THEN "FileNotFoundError" ELSE "YAMLError"

\* build_docx.py run as a script: the usage exit, or build_resume(role) to its end.
MainDocx ==
    /\ pc = "start"
    /\ script = "build_docx.py"
    /\ pc' = "exited"
    /\ IF Len(argv) < 2
       THEN /\ stdout' = Usage
            /\ exit' = 1
            /\ UNCHANGED <<role, loaded, view, doc, raised, fsVars>>
       ELSE IF datafile # "ok"
       THEN /\ role' = Lower(argv[2])
            /\ Dies(LoadError)
            /\ UNCHANGED <<loaded, view, doc>>
       ELSE LET r == Lower(argv[2])
                v == Assemble(data, r)
                d == DocumentOf(data, v)
                version == FirstFree(files, r, 1)
                output_path == DocxPath(r, version)
            IN  /\ role' = r
                /\ loaded' = TRUE
                /\ view' = v
                /\ doc' = d
                /\ outdir' = TRUE
                /\ files' = Written(files, output_path, script, d)
                /\ log' = Append(log, LogEntry(script, r, output_path, version, d))
                /\ stdout' = << <<"Generated resume for role: ">> \o r,
                                <<"Output: ">> \o output_path,
                                <<"Version: ">> \o ToStr(version) >>
                /\ exit' = 0
                /\ UNCHANGED raised
    /\ UNCHANGED <<filterVars, boldVars, data, datafile, argv, script, nruns, procs>>

\* build.py run as a script.
MainMd ==
    /\ pc = "start"
    /\ script = "build.py"
    /\ pc' = "exited"
    /\ IF Len(argv) < 2
       THEN /\ Dies("IndexError")
            /\ UNCHANGED <<role, loaded, view, doc>>
       ELSE IF datafile # "ok"
       THEN /\ role' = Lower(argv[2])
            /\ Dies(LoadError)
            /\ UNCHANGED <<loaded, view, doc>>
       ELSE LET ROLE == Lower(argv[2])
                summary == filter_items(data.summary, ROLE)
                experience == MdExperience(data.experience, ROLE, <<>>)
                skills == MdSkills(data.skills, ROLE)
                out_path == MdPath(ROLE)
            IN  /\ role' = ROLE
                /\ loaded' = TRUE
                /\ IF summary.raised # ""
                   THEN Dies(summary.raised) /\ UNCHANGED <<view, doc>>
                   ELSE IF experience.raised # ""
                   THEN /\ Dies(experience.raised)
                        /\ view' = [NoView EXCEPT !.summary_items = summary.value]
                        /\ UNCHANGED doc
                   ELSE LET rendered_md ==
                                RenderedMd(data, summary.value, experience.value, skills)
                        IN  /\ view' = [NoView EXCEPT !.summary_items = summary.value,
                                                      !.experience_items = experience.value,
                                                      !.skill_items = skills]
                            /\ doc' = rendered_md
                            /\ IF ~outdir
                               THEN Dies("FileNotFoundError")
                               ELSE /\ files' = Written(files, out_path, script, rendered_md)
                                    /\ log' = Append(log,
                                          LogEntry(script, ROLE, out_path, 0, rendered_md))
                                    /\ stdout' = << <<"Generated Markdown for role: ">>
                                                      \o ROLE \o <<" -> ">> \o out_path >>
                                    /\ exit' = 0
                                    /\ UNCHANGED <<raised, outdir>>
    /\ UNCHANGED <<filterVars, boldVars, data, datafile, argv, script, nruns, procs>>

\* The command lines: the script, then no argument or a role in some casing.
Args == {<<>>, <<ALL>>, <<QA>>, << <<"B", "e">> >>}
Scripts == {"build_docx.py", "build.py"}

\* A fresh process: nothing loaded, nothing printed.
Fresh ==
    /\ pc = "start" /\ role = <<>> /\ loaded = FALSE /\ view = NoView /\ doc = <<>>
    /\ stdout = <<>> /\ raised = "" /\ exit = 0

\* One invocation on some data file, outputs/ absent or present and empty.
Init ==
    /\ data \in DataSet
    /\ datafile = "ok"
    /\ script \in Scripts
    /\ \E args \in Args : argv = <<script>> \o args
    /\ Fresh
    /\ nruns = 1
    /\ files = <<>> /\ outdir \in BOOLEAN /\ log = <<>>
    /\ FilterIdle /\ BoldIdle /\ ProcsIdle

Next == MainDocx \/ MainMd

Spec == Init /\ [][Next]_vars

-----------------------------------------------------------------------------
(* Invocations in a row, on the same data file, from any set of files      *)
(* already in outputs/.                                                    *)

Existing == Content("existing", <<>>)

\* The paths that may exist before the first run.
EarlierPaths == {DocxPath(BE, v) : v \in 1..MaxVersion} \cup {MdPath(BE)}

RunsData ==
    { MkData(PlainShape),
      MkData([PlainShape EXCEPT !.summary = <<Tagged({ALL}), Untagged>>]) }

InitRuns ==
    /\ data \in RunsData
    /\ datafile = "ok"
    /\ script \in Scripts
    /\ \E args \in Args : argv = <<script>> \o args
    /\ Fresh
    /\ nruns = 1
    /\ \E S \in SUBSET EarlierPaths : files = [path \in S |-> Existing]
    /\ outdir \in BOOLEAN
    /\ files # <<>> => outdir
    /\ log = <<>>
    /\ FilterIdle /\ BoldIdle /\ ProcsIdle

\* The next invocation starts after the previous one has exited.
Invoke ==
    /\ pc = "exited"
    /\ nruns < MaxRuns
    /\ nruns' = nruns + 1
    /\ script' \in Scripts
    /\ \E args \in Args : argv' = <<script'>> \o args
    /\ pc' = "start" /\ role' = <<>> /\ loaded' = FALSE /\ view' = NoView /\ doc' = <<>>
    /\ stdout' = <<>> /\ raised' = "" /\ exit' = 0
    /\ UNCHANGED <<filterVars, boldVars, data, datafile, fsVars, procs>>

NextRuns == MainDocx \/ MainMd \/ Invoke

SpecRuns == InitRuns /\ [][NextRuns]_vars

-----------------------------------------------------------------------------
(* One invocation, the data file being there or not, well-formed or not,   *)
(* and outputs/ being absent or holding some files.                        *)

InitLoad ==
    /\ datafile \in {"ok", "missing", "malformed"}
    /\ IF datafile = "ok" THEN data \in RunsData ELSE data = NoData
    /\ script \in Scripts
    /\ \E args \in Args : argv = <<script>> \o args
    /\ Fresh
    /\ nruns = 1
    /\ \E S \in SUBSET EarlierPaths : files = [path \in S |-> Existing]
    /\ outdir \in BOOLEAN
    /\ files # <<>> => outdir
    /\ log = <<>>
    /\ FilterIdle /\ BoldIdle /\ ProcsIdle

SpecLoad == InitLoad /\ [][Next]_vars

-----------------------------------------------------------------------------
(* Concurrent invocations, as separate processes: each has assembled its   *)
(* document in memory and goes on to the file system, one call at a time.  *)

Procs == 1..NumProcs

ConcRoles == {BE, ALL}

SetProc(p, fields) == [procs EXCEPT ![p] = fields @@ procs[p]]

InitConc ==
    /\ data = MkData(PlainShape)
    /\ datafile = "ok"
    /\ procs \in [Procs -> [script : Scripts, role : ConcRoles, pc : {"assembled"},
                            version : {1}, output_path : {<<>>}]]
    /\ \E S \in SUBSET {DocxPath(BE, 1)} : files = [path \in S |-> Existing]
    /\ outdir \in BOOLEAN
    /\ files # <<>> => outdir
    /\ log = <<>>
    /\ FilterIdle /\ BoldIdle /\ RunIdle

\* What process p has in memory to write.
BodyOf(p) ==
    IF procs[p].script = "build_docx.py"
    THEN DocumentOf(data, Assemble(data, procs[p].role))
    ELSE RenderedMd(data, filter_items(data.summary, procs[p].role).value,
                    MdExperience(data.experience, procs[p].role, <<>>).value,
                    MdSkills(data.skills, procs[p].role))

\* os.makedirs("outputs", exist_ok=True); version = 1
Makedirs(p) ==
    /\ procs[p].script = "build_docx.py"
    /\ procs[p].pc = "assembled"
    /\ outdir' = TRUE
    /\ procs' = SetProc(p, [pc |-> "scan", version |-> 1])
    /\ UNCHANGED <<filterVars, boldVars, data, datafile, runVars, files, log>>

\* One turn of the while loop: format the path, test it, leave or count up.
ScanStep(p) ==
    /\ procs[p].pc = "scan"
    /\ LET output_path == DocxPath(procs[p].role, procs[p].version)
       IN  IF ~Exists(files, output_path)
           THEN procs' = SetProc(p, [pc |-> "save", output_path |-> output_path])
           ELSE procs' = SetProc(p, [output_path |-> output_path,
                                     version |-> procs[p].version + 1])
    /\ UNCHANGED <<filterVars, boldVars, data, datafile, runVars, fsVars>>

\* doc.save(output_path)
SaveStep(p) ==
    /\ procs[p].pc = "save"
    /\ files' = Written(files, procs[p].output_path, procs[p].script, BodyOf(p))
    /\ log' = Append(log, [proc |-> p, path |-> procs[p].output_path,
                           overwrote |-> Exists(files, procs[p].output_path)])
    /\ procs' = SetProc(p, [pc |-> "done"])
    /\ UNCHANGED <<filterVars, boldVars, data, datafile, runVars, outdir>>

\* out_path = ...; open(out_path, "w"): creates or truncates the file.
MdOpen(p) ==
    /\ procs[p].script = "build.py"
    /\ procs[p].pc = "assembled"
    /\ LET out_path == MdPath(procs[p].role)
       IN  IF ~outdir
           THEN /\ procs' = SetProc(p, [pc |-> "died", output_path |-> out_path])
                /\ UNCHANGED <<files, log>>
           ELSE /\ procs' = SetProc(p, [pc |-> "write", output_path |-> out_path])
                /\ files' = Written(files, out_path, procs[p].script, <<>>)
                /\ log' = Append(log, [proc |-> p, path |-> out_path,
                                       overwrote |-> Exists(files, out_path)])
    /\ UNCHANGED <<filterVars, boldVars, data, datafile, runVars, outdir>>

\* f.write(rendered_md.strip() + "\n") and the close at the end of the with block.
MdWrite(p) ==
    /\ procs[p].pc = "write"
    /\ files' = Written(files, procs[p].output_path, procs[p].script, BodyOf(p))
    /\ procs' = SetProc(p, [pc |-> "done"])
    /\ UNCHANGED <<filterVars, boldVars, data, datafile, runVars, outdir, log>>

NextConc ==
    \E p \in Procs : Makedirs(p) \/ ScanStep(p) \/ SaveStep(p) \/ MdOpen(p) \/ MdWrite(p)

SpecConc == InitConc /\ [][NextConc]_vars

-----------------------------------------------------------------------------
(* One call of a tag filter on an item sequence.                           *)

FilterInputs == {MkItems("i", cs) : cs \in SeqsUpTo(FilterTagChoices, MaxItems)}

InitFilter ==
    /\ items \in FilterInputs
    /\ frole \in FilterRoles
    /\ fout = Ok(<<>>)
    /\ fpc = "ready"
    /\ BoldIdle /\ DataIdle /\ RunIdle /\ FilesIdle /\ ProcsIdle

CallFilterByTags ==
    /\ fpc = "ready"
    /\ fout' = Ok(filter_by_tags(items, frole))
    /\ fpc' = "filter_by_tags"
    /\ UNCHANGED <<items, frole, boldVars, data, datafile, runVars, fsVars, procs>>

CallFilterItems ==
    /\ fpc = "ready"
    /\ fout' = filter_items(items, frole)
    /\ fpc' = "filter_items"
    /\ UNCHANGED <<items, frole, boldVars, data, datafile, runVars, fsVars, procs>>

NextFilter == CallFilterByTags \/ CallFilterItems

SpecFilter == InitFilter /\ [][NextFilter]_vars

-----------------------------------------------------------------------------
(* One call of apply_bold_to_text on a bullet text.                        *)

BoldAlphabet == {"*", "a", "\n"}

InitBold ==
    /\ text \in SeqsUpTo(BoldAlphabet, MaxLen)
    /\ runs = <<>>
    /\ bpc = "ready"
    /\ FilterIdle /\ DataIdle /\ RunIdle /\ FilesIdle /\ ProcsIdle

CallApplyBold ==
    /\ bpc = "ready"
    /\ runs' = apply_bold_to_text(text)
    /\ bpc' = "done"
    /\ UNCHANGED <<text, filterVars, data, datafile, runVars, fsVars, procs>>

NextBold == CallApplyBold

SpecBold == InitBold /\ [][NextBold]_vars

-----------------------------------------------------------------------------
(* Claims about the tag filters (SpecFilter).                              *)

Range(f) == {f[i] : i \in DOMAIN f}

\* The k-th smallest element of a set of indices.
KthIndex(S, k) == CHOOSE i \in S : Cardinality({j \in S : j <= i}) = k

\* The subsequence of s at the indices in S, in order.
SubsequenceAt(s, S) == [k \in 1..Cardinality(S) |-> s[KthIndex(S, k)]]

\* The indices of the items whose tag list is present and holds "all" or r.
TaggedFor(its, r) ==
    {i \in DOMAIN its : "tags" \in DOMAIN its[i] /\ (ALL \in its[i].tags \/ r \in its[i].tags)}

\* C2: for a role other than "all", filter_by_tags returns exactly the
\* subsequence of its input, in the input's order, of the items whose tag list
\* holds "all" or the role; an item without a tags key is left out.
C2_FilterByTagsSubsequence ==
    (fpc = "filter_by_tags" /\ frole # ALL) =>
        /\ fout.raised = ""
        /\ fout.value = SubsequenceAt(items, TaggedFor(items, frole))

\* A call with role "be" on three items that keeps two (one for the sentinel
\* tag, one for the role) and leaves out an item without a tags key.
C2_Witness ==
    /\ fpc = "filter_by_tags" /\ frole = BE /\ Len(items) = 3
    /\ "tags" \notin DOMAIN items[1]
    /\ GetTags(items[2]) = {ALL} /\ GetTags(items[3]) = {BE}
    /\ fout.value = <<items[2], items[3]>>

TextsOf(its) == [i \in DOMAIN its |-> its[i].text]

\* C3: for both filters (filter_by_tags of the document path, filter_items of
\* the Markdown path), every item tagged "all" is in the result for every role,
\* filtering with role "all" returns the input unchanged, and the two filters
\* select the same items for the same input and role.
C3_BothFiltersSentinelLaws ==
    /\ fpc = "filter_by_tags" =>
          /\ \A i \in DOMAIN items :
                ALL \in GetTags(items[i]) => items[i] \in Range(fout.value)
          /\ frole = ALL => fout.value = items
    /\ (fpc = "filter_items" /\ fout.raised = "") =>
          /\ \A i \in DOMAIN items :
                ALL \in GetTags(items[i]) => items[i].text \in Range(fout.value)
          /\ frole = ALL => fout.value = TextsOf(items)
          /\ fout.value = TextsOf(filter_by_tags(items, frole))

-----------------------------------------------------------------------------
(* Claims about one invocation (Spec).                                     *)

\* build_resume ran to its end.
DocxDone == pc = "exited" /\ script = "build_docx.py" /\ Len(argv) >= 2 /\ raised = ""

BulletAppears(bullet) == \E k \in DOMAIN doc : doc[k] = BulletPara(bullet)
EducationAppears(edu) == \E k \in DOMAIN doc : doc[k] = EducationParas(edu)[1]
SkillAppears(skill_cat) == \E k \in DOMAIN doc : doc[k] = SkillPara(skill_cat)
SummaryAppears(its) ==
    \E k \in DOMAIN doc : doc[k] = Para(<<Run(Join(<<" ">>, TextsOf(its)), FALSE)>>)

\* C1: with role "all", every tagged entity of the data is in the document
\* whatever its own tags: every summary item, every bullet of every experience
\* and project entry, every education entry and every skills category.
C1_RoleAllShowsEverything ==
    (DocxDone /\ role = ALL) =>
        /\ data.summary # <<>> => SummaryAppears(data.summary)
        /\ \A i \in DOMAIN data.experience : \A j \in DOMAIN data.experience[i].bullets :
              BulletAppears(data.experience[i].bullets[j])
        /\ \A i \in DOMAIN data.projects : \A j \in DOMAIN data.projects[i].bullets :
              BulletAppears(data.projects[i].bullets[j])
        /\ \A i \in DOMAIN data.education : EducationAppears(data.education[i])
        /\ \A i \in DOMAIN data.skills : SkillAppears(data.skills[i].value)

\* The bullets of bs that survive filtering for role r.
SurvivingBullets(bs, r) == IF r = ALL THEN bs ELSE SubsequenceAt(bs, TaggedFor(bs, r))

\* The entries with at least one bullet selected by Sel, in order, each with its
\* selected bullets.
EntriesWith(entries, Sel(_)) ==
    LET K == {i \in DOMAIN entries : Sel(entries[i].bullets) # <<>>}
    IN  [k \in 1..Cardinality(K) |->
            [entries[KthIndex(K, k)] EXCEPT !.bullets = Sel(entries[KthIndex(K, k)].bullets)]]

\* C4: an experience entry, and likewise a project entry, is in the assembled
\* list if and only if at least one of its bullets survives filtering; the kept
\* entries are in their original order and each carries exactly its surviving
\* bullets in their original order.
C4_EntryKeptIffBulletSurvives ==
    DocxDone =>
        /\ view.experience_items =
              EntriesWith(data.experience, LAMBDA bs : SurvivingBullets(bs, role))
        /\ view.project_items =
              EntriesWith(data.projects, LAMBDA bs : SurvivingBullets(bs, role))

\* Role "be", two experience entries of two bullets: the first, tagged only
\* "fe", is dropped; the second is kept with its one bullet tagged "be".
C4_Witness ==
    /\ DocxDone /\ role = BE
    /\ Len(data.experience) = 2
    /\ Len(data.experience[1].bullets) = 2
    /\ \A j \in 1..2 : GetTags(data.experience[1].bullets[j]) = {FE}
    /\ Len(data.experience[2].bullets) = 2
    /\ GetTags(data.experience[2].bullets[1]) = {FE}
    /\ GetTags(data.experience[2].bullets[2]) = {BE}
    /\ Len(view.experience_items) = 1
    /\ view.experience_items[1].company = data.experience[2].company
    /\ view.experience_items[1].bullets = <<data.experience[2].bullets[2]>>

SectionNames == <<"SUMMARY", "EXPERIENCE", "PROJECTS", "EDUCATION", "SKILLS">>

\* The list build_resume assembled for the s-th section.
SectionList(s) ==
    CASE s = 1 -> view.summary_items
      [] s = 2 -> view.experience_items
      [] s = 3 -> view.project_items
      [] s = 4 -> view.education_items
      [] s = 5 -> view.skill_items

HeaderIndices(s) == {k \in DOMAIN doc : doc[k] = SectionHeader(SectionNames[s])}
IsSectionHeader(p) == \E s \in DOMAIN SectionNames : p = SectionHeader(SectionNames[s])
IsContent(p) == ~p.border /\ ~IsSectionHeader(p)

\* C5: in the document build_resume emits, the header of a section is there if
\* and only if the list assembled for the section is not empty; every section
\* header is followed by a content paragraph of its section; the sections come
\* in the order summary, experience, projects, education, skills, after the
\* header block.
C5_HeaderIffSectionNotEmpty ==
    DocxDone =>
        /\ SubSeq(doc, 1, Len(HeaderBlock(data))) = HeaderBlock(data)
        /\ \A s \in DOMAIN SectionNames :
              /\ HeaderIndices(s) # {} <=> SectionList(s) # <<>>
              /\ Cardinality(HeaderIndices(s)) <= 1
              /\ \A k \in HeaderIndices(s) :
                    /\ k > Len(HeaderBlock(data))
                    /\ \E m \in DOMAIN doc :
                          /\ m > k
                          /\ IsContent(doc[m])
                          /\ \A n \in (k + 1)..m : ~IsSectionHeader(doc[n])
                    /\ \A t \in DOMAIN SectionNames : \A j \in HeaderIndices(t) :
                          s < t => k < j

\* A run in which the summary is filtered to nothing (no SUMMARY header) while
\* the experience and skills sections are emitted.
C5_Witness ==
    /\ DocxDone
    /\ data.summary # <<>> /\ view.summary_items = <<>> /\ HeaderIndices(1) = {}
    /\ view.experience_items # <<>> /\ HeaderIndices(2) # {}
    /\ view.skill_items # <<>> /\ HeaderIndices(5) # {}

\* The tags used anywhere in the data.
TagsOfAll(its) == UNION {GetTags(its[i]) : i \in DOMAIN its}
TagsUsed(d) ==
    TagsOfAll(d.summary) \cup TagsOfAll(d.education)
    \cup UNION {TagsOfAll(d.experience[i].bullets) : i \in DOMAIN d.experience}
    \cup UNION {TagsOfAll(d.projects[i].bullets) : i \in DOMAIN d.projects}
    \cup UNION {GetTags(d.skills[i].value) : i \in DOMAIN d.skills}

\* The document the run saved.
SavedBody == files[log[Len(log)].path].body

\* C8 as stated: for a role that is no tag of the data, build_resume raises no
\* error, every section filters to empty and the saved document is the header
\* block alone.
C8_UnknownRoleOnlyHeaderBlock ==
    (DocxDone /\ role \notin TagsUsed(data)) =>
        /\ exit = 0 /\ raised = ""
        /\ view = NoView
        /\ SavedBody = HeaderBlock(data)

\* The items carrying the sentinel tag, in order.
SentinelTagged(its) == SubsequenceAt(its, TaggedFor(its, ALL))

\* C8 as amended: for a role other than "all" that is no tag of the data,
\* build_resume raises no error and every section keeps exactly its entities
\* tagged "all"; when nothing is tagged "all", the saved document is the header
\* block alone.
C8_UnknownRoleKeepsSentinelTagged ==
    (DocxDone /\ role # ALL /\ role \notin TagsUsed(data)) =>
        /\ exit = 0 /\ raised = ""
        /\ view.summary_items = SentinelTagged(data.summary)
        /\ view.experience_items = EntriesWith(data.experience, SentinelTagged)
        /\ view.project_items = EntriesWith(data.projects, SentinelTagged)
        /\ view.education_items = SentinelTagged(data.education)
        /\ view.skill_items =
              SentinelTagged([i \in DOMAIN data.skills |-> data.skills[i].value])
        /\ SavedBody = DocumentOf(data, view)
        /\ ALL \notin TagsUsed(data) => SavedBody = HeaderBlock(data)

\* Role "qa", used nowhere: the summary item tagged "be" is dropped, the skills
\* category tagged "all" is kept and the SKILLS header is in the document.
C8_Witness ==
    /\ DocxDone /\ role = QA /\ role \notin TagsUsed(data)
    /\ data.summary # <<>> /\ view.summary_items = <<>>
    /\ view.skill_items # <<>> /\ HeaderIndices(5) # {}

\* C9: for each build script, an invocation without the role argument prints a
\* usage message to standard output and exits with a non-zero status without
\* loading the data or writing a file; with an argument, the role used for
\* filtering and for the output path is the argument in lower case.
C9_UsageWithoutArgument ==
    pc = "exited" =>
        /\ Len(argv) < 2 =>
              /\ stdout # <<>>
              /\ exit # 0
              /\ ~loaded
              /\ files = <<>> /\ log = <<>>
        /\ Len(argv) >= 2 =>
              /\ role = Lower(argv[2])
              /\ \A k \in DOMAIN log : log[k].role = Lower(argv[2])

-----------------------------------------------------------------------------
(* Claims about invocations in a row (SpecRuns).                           *)

\* The step in which build_resume runs to its end.
DocxStep == pc = "start" /\ pc' = "exited" /\ script = "build_docx.py" /\ Len(argv) >= 2

\* The write of the step just taken.
Wrote == log'[Len(log')]

\* Each run saves to the smallest version whose path did not exist when it
\* started, and changes no file that existed.
SavesFirstFreeVersion ==
    DocxStep =>
        /\ Len(log') = Len(log) + 1
        /\ Wrote.version >= 1
        /\ Wrote.path = DocxPath(role', Wrote.version)
        /\ ~Exists(files, Wrote.path)
        /\ \A u \in 1..(Wrote.version - 1) : Exists(files, DocxPath(role', u))
        /\ DOMAIN files' = DOMAIN files \cup {Wrote.path}
        /\ files'[Wrote.path].body = doc'
        /\ \A path \in DOMAIN files : files'[path] = files[path]

\* Two writes in a row by the Markdown builder for the same role: the same path,
\* the same content.
MarkdownRepeats ==
    \A k \in 1..(Len(log) - 1) :
        (log[k].script = "build.py" /\ log[k + 1].script = "build.py"
            /\ log[k].role = log[k + 1].role) =>
        /\ log[k + 1].path = log[k].path
        /\ log[k + 1].body = log[k].body

-----------------------------------------------------------------------------
(* Claims about concurrent invocations (SpecConc).                         *)

\* Process p has formatted its output path and passed the exists check, or saved.
HasPath(p) == procs[p].pc \in {"save", "done"}

\* C7: with concurrent invocations, no invocation saves to a path another
\* invocation has chosen or written, so no output is overwritten.  Stated for
\* the invocations of build_docx.py, whose version scan is meant to find a path
\* of their own.
C7_ConcurrentPathsDistinct ==
    /\ \A p \in Procs : \A q \in Procs \ {p} :
          (procs[p].script = "build_docx.py" /\ procs[q].script = "build_docx.py"
              /\ procs[p].pc = "done" /\ HasPath(q)) =>
          procs[p].output_path # procs[q].output_path
    /\ \A k \in DOMAIN log :
          procs[log[k].proc].script = "build_docx.py" => ~log[k].overwrote

-----------------------------------------------------------------------------
(* Claims about the emphasis parser (SpecBold).                            *)

\* The closing delimiter of the earliest, shortest pair opened before j: the
\* first "**" at or after j, or 0.
RECURSIVE PairClose(_, _)
PairClose(t, j) ==
    IF j > Len(t) THEN 0
    ELSE IF StarsAt(t, j) THEN j
    ELSE PairClose(t, j + 1)

\* The pieces of t split on its paired delimiters, as [text, bold] records.
RECURSIVE PairedPieces(_, _, _)
PairedPieces(t, i, last) ==
    IF i > Len(t) THEN <<[text |-> SubSeq(t, last, Len(t)), bold |-> FALSE]>>
    ELSE IF StarsAt(t, i) /\ PairClose(t, i + 2) # 0
         THEN LET j == PairClose(t, i + 2)
              IN  <<[text |-> SubSeq(t, last, i - 1), bold |-> FALSE],
                    [text |-> SubSeq(t, i + 2, j - 1), bold |-> TRUE]>>
                      \o PairedPieces(t, j + 2, j + 2)
         ELSE PairedPieces(t, i + 1, last)

NonEmptyPiece(p) == p.text # <<>>

\* C10: apply_bold_to_text emits, left to right, exactly the non-empty pieces
\* of the text split on paired "**" delimiters (earliest, shortest pairing),
\* bold exactly for the pieces between a pair; an unpaired "**" stays literal
\* in a plain piece.
C10_RunsArePairedPieces ==
    bpc = "done" => runs = SelectSeq(PairedPieces(text, 1, 1), NonEmptyPiece)

-----------------------------------------------------------------------------
(* The order of loading, assembling and saving.                            *)

\* One run of either script, from its start to its exit.
RunStep == pc = "start" /\ pc' = "exited"

\* The data file is there and every tag lookup of the run succeeded.
ValidRun == Len(argv) >= 2 /\ datafile = "ok" /\ raised' # "KeyError"

\* C11: in both build scripts the output file is written only after the data
\* file has been loaded and every section assembled; when loading or parsing
\* fails the run ends with the error and outputs/ and its files are as they
\* were; when outputs/ is absent and the data is valid, the run creates the
\* directory and saves its file there.
C11_WriteOnlyAfterLoad ==
    [][RunStep =>
          /\ (files' # files \/ outdir' # outdir) => (loaded' /\ doc' # <<>>)
          /\ (Len(argv) >= 2 /\ datafile # "ok") =>
                 /\ raised' = LoadError
                 /\ exit' # 0
                 /\ files' = files
                 /\ outdir' = outdir
          /\ (ValidRun /\ ~outdir) =>
                 /\ outdir'
                 /\ files' # files
                 /\ raised' = ""]_vars

=============================================================================
